---- MODULE Spec2Model ----
(***************************************************************************)
(* State-machine model of src/input_examples/sample.cpp: square() and      *)
(* main().  One action per statement of main; the call of square is a step *)
(* of its own.  int is 32-bit two's complement.  Signed overflow and the   *)
(* read of a never-assigned int are undefined: the model lets them yield   *)
(* any of a set of int values, the wrapped result among them.              *)
(***************************************************************************)
EXTENDS Integers, Sequences, FiniteSets, TLC

VARIABLES pc, a, b, arr, msg, i, x, ret, out, exited, exitCode,
          nreads, writes, ovf, bseen

vars == <<pc, a, b, arr, msg, i, x, ret, out, exited, exitCode,
          nreads, writes, ovf, bseen>>

----------------------------------------------------------------------------
(* Bounds and the int type *)

\* inputs are taken within InputSpread of each interesting value
InputSpread == 2

INT_MAX == 2147483647
INT_MIN == -2147483647 - 1

\* int arr[3]
ArrLen == 3
Slots == 0 .. (ArrLen - 1)

\* contents of memory that was never assigned, and results of undefined
\* arithmetic other than the wrapped one
Indeterminate == {-1, 11}

Centers == {0, 3, 10, -46340, 46338}

IntInputs ==
    UNION {(c - InputSpread) .. (c + InputSpread) : c \in Centers}
      \cup {INT_MAX - d : d \in 0 .. InputSpread}
      \cup {INT_MIN + d : d \in 0 .. InputSpread}

\* what stands on standard input: a numeral in range, a numeral above or
\* below the range of int, a token that is no numeral, or nothing at all
Tokens ==
    [kind : {"int"}, val : IntInputs]
      \cup [kind : {"over", "under", "malformed", "eof"}, val : {0}]

\* cin >> b: a numeral is stored; an out-of-range numeral stores the nearest
\* limit; a non-numeral stores 0 (C++11) or leaves b alone (C++98); at end of
\* input b is left alone
Extract(tok, old) ==
    CASE tok.kind = "int"       -> {tok.val}
      [] tok.kind = "over"      -> {INT_MAX}
      [] tok.kind = "under"     -> {INT_MIN}
      [] tok.kind = "malformed" -> {0, old}
      [] tok.kind = "eof"       -> {old}

----------------------------------------------------------------------------
(* 32-bit arithmetic *)

Abs(n) == IF n < 0 THEN 0 - n ELSE n

\* i + b with 0 <= i leaves the range of int
AddOverflows(k, n) == n > INT_MAX - k

\* x * x leaves the range of int
MulOverflows(n) ==
    \/ n = INT_MIN
    \/ n # INT_MIN /\ n # 0 /\ Abs(n) > INT_MAX \div Abs(n)

\* 16-bit limbs of the two's complement representation
Hi16(n) == (n \div 65536) % 65536
Lo16(n) == n % 65536

MulMod16(p, q) ==
    ((((p \div 256) * q) % 256) * 256 + (p % 256) * q) % 65536

FromLimbs(hi, lo) ==
    (IF hi >= 32768 THEN hi - 65536 ELSE hi) * 65536 + lo

\* n * m modulo 2^32, as a signed int
WrapMul(n, m) ==
    LET nh == Hi16(n)
        nl == Lo16(n)
        mh == Hi16(m)
        ml == Lo16(m)
        t1 == (nl % 256) * ml
        t2 == (nl \div 256) * ml
        low == t1 + (t2 % 256) * 256
        lo == low % 65536
        carry == (t2 \div 256) + (low \div 65536)
        hi == (carry + MulMod16(nh, ml) + MulMod16(nl, mh)) % 65536
    IN  FromLimbs(hi, lo)

\* k + n modulo 2^32 when the sum exceeds INT_MAX
WrapAdd(k, n) == INT_MIN + ((k - 1) - (INT_MAX - n))

----------------------------------------------------------------------------
(* Output tokens: one per operand of operator<< *)

Str(s) == [t |-> "str", s |-> s, n |-> 0]
Num(n) == [t |-> "int", s |-> "", n |-> n]
Endl == [t |-> "endl", s |-> "\n", n |-> 0]

----------------------------------------------------------------------------
(* square *)

SquareMut(n) == n + n

\* return x * x;
square(n) == n * n

\* the values the multiplication in square can yield
SquareOutcomes(n) ==
    IF MulOverflows(n) THEN {WrapMul(n, n)} \cup Indeterminate
    ELSE {square(n)}

----------------------------------------------------------------------------
(* main: expressions *)

\* i + b
FillArg(k, n) == k + n

FillArgOutcomes(k, n) ==
    IF AddOverflows(k, n) THEN {WrapAdd(k, n)} \cup Indeterminate
    ELSE {FillArg(k, n)}

\* the loop started one slot too far
FillInitMut == 0 + 1

\* int i = 0 of the fill loop
FillInit == 0

FillCondMut(k) == k < ArrLen - 1

\* i < 3 of the fill loop
FillCond(k) == k < ArrLen

StoreIndexMut(k) == 0

\* the subscript of arr[i] = ...
StoreIndex(k) == k

WhileCondMut(n) == n <= 10

\* a < 10
WhileCond(n) == n < 10

BigCondMut(n) == n >= 10

\* b > 10
BigCond(n) == n > 10

\* i < 3 of the printing loop
PrintCond(k) == k < ArrLen

ElemTokensMut(v) == <<Str(" "), Num(v)>>

\* cout << arr[i] << " "
ElemTokens(v) == <<Num(v), Str(" ")>>

\* cout << msg << " " << a << endl
HelloTokens(m, n) == <<Str(m), Str(" "), Num(n), Endl>>

AfterFillMut == "branch"

\* the statement that follows the fill loop
AfterFill == "while_test"

\* a failure status in place of success
ReturnValueMut == 0 + 1

\* return 0;
ReturnValue == 0

----------------------------------------------------------------------------
(* main: statements *)

Init ==
    /\ pc = "prompt"
    /\ a = 5
    /\ msg = "Hello"
    /\ arr \in [Slots -> Indeterminate]
    /\ b \in Indeterminate
    /\ i = 0
    /\ x = 0
    /\ ret = 0
    /\ out = <<>>
    /\ exited = FALSE
    /\ exitCode = 0
    /\ nreads = 0
    /\ writes = [k \in Slots |-> 0]
    /\ ovf = FALSE
    /\ bseen = {}

\* cout << "Enter a number: ";
Prompt ==
    /\ pc = "prompt"
    /\ out' = Append(out, Str("Enter a number: "))
    /\ pc' = "read"
    /\ UNCHANGED <<a, b, arr, msg, i, x, ret, exited, exitCode,
                   nreads, writes, ovf, bseen>>

\* cin >> b;
Read ==
    /\ pc = "read"
    /\ \E tok \in Tokens : b' \in Extract(tok, b)
    /\ nreads' = nreads + 1
    /\ pc' = "fill_init"
    /\ UNCHANGED <<a, arr, msg, i, x, ret, out, exited, exitCode,
                   writes, ovf, bseen>>

\* for (int i = 0; ...
FillLoopInit ==
    /\ pc = "fill_init"
    /\ i' = FillInit
    /\ pc' = "fill_test"
    /\ UNCHANGED <<a, b, arr, msg, x, ret, out, exited, exitCode,
                   nreads, writes, ovf, bseen>>

\* ... i < 3; ...
FillTest ==
    /\ pc = "fill_test"
    /\ pc' = IF FillCond(i) THEN "fill_call" ELSE AfterFill
    /\ UNCHANGED <<a, b, arr, msg, i, x, ret, out, exited, exitCode,
                   nreads, writes, ovf, bseen>>

\* square(i + b): the argument is evaluated and passed
FillCall ==
    /\ pc = "fill_call"
    /\ x' \in FillArgOutcomes(i, b)
    /\ ovf' = (ovf \/ AddOverflows(i, b))
    /\ bseen' = bseen \cup {b}
    /\ pc' = "square"
    /\ UNCHANGED <<a, b, arr, msg, i, ret, out, exited, exitCode,
                   nreads, writes>>

\* int square(int x) { return x * x; }
SquareBody ==
    /\ pc = "square"
    /\ ret' \in SquareOutcomes(x)
    /\ ovf' = (ovf \/ MulOverflows(x))
    /\ pc' = "fill_store"
    /\ UNCHANGED <<a, b, arr, msg, i, x, out, exited, exitCode,
                   nreads, writes, bseen>>

\* arr[i] = <returned value>; i++
FillStore ==
    /\ pc = "fill_store"
    /\ arr' = [arr EXCEPT ![StoreIndex(i)] = ret]
    /\ writes' = [writes EXCEPT ![StoreIndex(i)] = @ + 1]
    /\ i' = i + 1
    /\ pc' = "fill_test"
    /\ UNCHANGED <<a, b, msg, x, ret, out, exited, exitCode,
                   nreads, ovf, bseen>>

\* while (a < 10)
WhileTest ==
    /\ pc = "while_test"
    /\ pc' = IF WhileCond(a) THEN "while_body" ELSE "branch"
    /\ UNCHANGED <<a, b, arr, msg, i, x, ret, out, exited, exitCode,
                   nreads, writes, ovf, bseen>>

\* cout << msg << " " << a << endl; a++;
WhileBody ==
    /\ pc = "while_body"
    /\ out' = out \o HelloTokens(msg, a)
    /\ a' = a + 1
    /\ pc' = "while_test"
    /\ UNCHANGED <<b, arr, msg, i, x, ret, exited, exitCode,
                   nreads, writes, ovf, bseen>>

BranchMut ==
    /\ pc = "branch"
    /\ b' = 10
    /\ bseen' = bseen \cup {10}
    /\ out' = out \o <<Str("Big number!"), Endl>>
    /\ pc' = "label"
    /\ UNCHANGED <<a, arr, msg, i, x, ret, exited, exitCode,
                   nreads, writes, ovf>>

\* if (b > 10) ... else ...
Branch ==
    /\ pc = "branch"
    /\ bseen' = bseen \cup {b}
    /\ out' = out \o <<Str(IF BigCond(b) THEN "Big number!"
                                         ELSE "Small number!"), Endl>>
    /\ pc' = "label"
    /\ UNCHANGED <<a, b, arr, msg, i, x, ret, exited, exitCode,
                   nreads, writes, ovf>>

\* cout << "Array values: ";
PrintLabel ==
    /\ pc = "label"
    /\ out' = Append(out, Str("Array values: "))
    /\ pc' = "print_init"
    /\ UNCHANGED <<a, b, arr, msg, i, x, ret, exited, exitCode,
                   nreads, writes, ovf, bseen>>

\* for (int i = 0; ...
PrintLoopInit ==
    /\ pc = "print_init"
    /\ i' = 0
    /\ pc' = "print_test"
    /\ UNCHANGED <<a, b, arr, msg, x, ret, out, exited, exitCode,
                   nreads, writes, ovf, bseen>>

\* ... i < 3; ...
PrintTest ==
    /\ pc = "print_test"
    /\ pc' = IF PrintCond(i) THEN "print_elem" ELSE "newline"
    /\ UNCHANGED <<a, b, arr, msg, i, x, ret, out, exited, exitCode,
                   nreads, writes, ovf, bseen>>

\* cout << arr[i] << " "; i++
PrintElem ==
    /\ pc = "print_elem"
    /\ out' = out \o ElemTokens(arr[i])
    /\ i' = i + 1
    /\ pc' = "print_test"
    /\ UNCHANGED <<a, b, arr, msg, x, ret, exited, exitCode,
                   nreads, writes, ovf, bseen>>

\* cout << endl;
PrintNewline ==
    /\ pc = "newline"
    /\ out' = Append(out, Endl)
    /\ pc' = "return"
    /\ UNCHANGED <<a, b, arr, msg, i, x, ret, exited, exitCode,
                   nreads, writes, ovf, bseen>>

\* return 0;
Return ==
    /\ pc = "return"
    /\ exited' = TRUE
    /\ exitCode' = ReturnValue
    /\ pc' = "done"
    /\ UNCHANGED <<a, b, arr, msg, i, x, ret, out,
                   nreads, writes, ovf, bseen>>

Next ==
    \/ Prompt
    \/ Read
    \/ FillLoopInit
    \/ FillTest
    \/ FillCall
    \/ SquareBody
    \/ FillStore
    \/ WhileTest
    \/ WhileBody
    \/ Branch
    \/ PrintLabel
    \/ PrintLoopInit
    \/ PrintTest
    \/ PrintElem
    \/ PrintNewline
    \/ Return

Spec == Init /\ [][Next]_vars

\* the program is one thread that runs whenever it can
FairSpec == Spec /\ WF_vars(Next)

----------------------------------------------------------------------------
(* Positions of main *)

FillPcs == {"fill_init", "fill_test", "fill_call", "square", "fill_store"}
PrintPcs == {"label", "print_init", "print_test", "print_elem", "newline",
             "return", "done"}
\* the fill loop has finished
FillDone == pc \in {"while_test", "while_body", "branch"} \cup PrintPcs
\* the while loop has finished
WhileDone == pc \in {"branch"} \cup PrintPcs
\* the if statement has finished
BranchDone == pc \in PrintPcs

Count(seq, tok) == Cardinality({k \in DOMAIN seq : seq[k] = tok})

IsPrefix(s, t) == Len(s) <= Len(t) /\ \A k \in DOMAIN s : s[k] = t[k]

\* an output token with the number in it erased
Shape(tok) == IF tok.t = "int" THEN Num(0) ELSE tok

PromptLine == <<Str("Enter a number: ")>>
HelloLines ==
    <<Str("Hello"), Str(" "), Num(5), Endl>> \o
    <<Str("Hello"), Str(" "), Num(6), Endl>> \o
    <<Str("Hello"), Str(" "), Num(7), Endl>> \o
    <<Str("Hello"), Str(" "), Num(8), Endl>> \o
    <<Str("Hello"), Str(" "), Num(9), Endl>>
ArrayLine ==
    <<Str("Array values: "), Num(arr[0]), Str(" "), Num(arr[1]), Str(" "),
      Num(arr[2]), Str(" "), Endl>>

\* the four groups of output in their order, numbers erased
OutputShape(line) ==
    [k \in 1 .. 31 |->
        Shape((PromptLine \o HelloLines \o <<Str(line), Endl>>
                 \o ArrayLine)[k])]

----------------------------------------------------------------------------
(* Claims *)

\* C1: when the fill loop has finished and no overflow occurred, arr[k] is
\* (k + b) * (k + b) for each index k in 0..2.
C1_FillSquares ==
    (FillDone /\ ~ovf) => \A k \in 0 .. 2 : arr[k] = (k + b) * (k + b)

C1_Witness ==
    pc = "while_test" /\ b = 3 /\ ~ovf /\ arr = [k \in 0 .. 2 |-> (k + 3) * (k + 3)]

\* C2: whatever b is, the while loop prints "Hello a" for a = 5, 6, 7, 8, 9
\* in that order, five lines and no more, and leaves a = 10; while it runs,
\* the Hello lines printed so far are those for 5 .. a - 1.
C2_FiveHellos ==
    /\ Count(out, Str("Hello")) = (IF FillDone THEN a - 5 ELSE 0)
    /\ FillDone => /\ a \in 5 .. 10
                   /\ IsPrefix(SubSeq(out, 2, Len(out)),
                               HelloLines \o SubSeq(out, 22, Len(out)))
    /\ WhileDone => /\ a = 10
                    /\ SubSeq(out, 2, 21) = HelloLines

C2_Witness ==
    pc = "branch" /\ a = 10 /\ Count(out, Str("Hello")) = 5 /\ b > 46338

\* C3: once the if statement has run, exactly one of the lines "Big number!"
\* and "Small number!" has been printed, "Big number!" exactly when b > 10;
\* before it has run neither has been printed.
C3_Threshold ==
    LET big == Count(out, Str("Big number!"))
        small == Count(out, Str("Small number!"))
    IN  /\ ~BranchDone => big + small = 0
        /\ BranchDone => /\ big + small = 1
                         /\ big = 1 <=> b > 10
                         /\ SubSeq(out, 22, 23) \in
                              {<<Str("Big number!"), Endl>>,
                               <<Str("Small number!"), Endl>>}

C3_Witness ==
    pc = "done" /\ b = 10 /\ Count(out, Str("Small number!")) = 1

\* C4: the output is at every moment a prefix of: the prompt, the five Hello
\* lines, one Big/Small line, the array line; and it is all of it at the end.
C4_OutputOrder ==
    /\ \E line \in {"Big number!", "Small number!"} :
          IsPrefix([k \in DOMAIN out |-> Shape(out[k])], OutputShape(line))
    /\ pc = "done" => Len(out) = 31

C4_Witness ==
    pc = "done" /\ Len(out) = 31 /\ out[1] = Str("Enter a number: ")
      /\ out[24] = Str("Array values: ")

\* C5: main eventually terminates, and it has terminated only when it has
\* reached its final return, with exit code 0.
C5_Terminates ==
    /\ <>exited
    /\ [](exited => (pc = "done" /\ exitCode = 0))
    /\ [](pc = "done" => exited)

C5_Witness ==
    exited /\ pc = "done" /\ exitCode = 0 /\ ovf

\* C6: a call of square whose argument's square fits in an int returns
\* x * x, and the call leaves a, b, arr, the output and its argument alone.
C6_SquarePure ==
    [][pc = "square" =>
          /\ ~MulOverflows(x) => ret' = x * x
          /\ UNCHANGED <<a, b, arr, msg, i, x, out, nreads, writes>>]_vars

C6_Witness ==
    pc = "fill_store" /\ x = -46340 /\ ret = 2147395600

\* C7: at the end the output closes with the label "Array values: ", then
\* arr[0], arr[1], arr[2] in this order, each followed by one space, then a
\* newline; nothing else belongs to that line.
C7_ArrayLine ==
    pc \in {"return", "done"} =>
        /\ Len(out) = 31
        /\ SubSeq(out, 24, 31) = ArrayLine
        /\ out[23] = Endl
        /\ Count(out, Str("Array values: ")) = 1

C7_Witness ==
    pc = "done" /\ b = 3
      /\ SubSeq(out, 24, 31) =
           <<Str("Array values: "), Num(9), Str(" "), Num(16), Str(" "),
             Num(25), Str(" "), Endl>>

\* C8: arr always has its 3 slots; no slot is written more than once, and
\* each has been written exactly once when the fill loop has finished; arr
\* is written only inside the fill loop, and a slot is read by the printing
\* loop only after it was written.
C8_SlotsWrittenOnce ==
    /\ [](/\ DOMAIN arr = 0 .. 2
          /\ \A k \in 0 .. 2 : writes[k] <= 1
          /\ FillDone => \A k \in 0 .. 2 : writes[k] = 1
          /\ pc = "print_elem" => (i \in 0 .. 2 /\ writes[i] = 1))
    /\ [][(arr' # arr \/ writes' # writes) => pc = "fill_store"]_vars

C8_Witness ==
    pc = "print_elem" /\ i = 2 /\ writes = [k \in 0 .. 2 |-> 1]

\* C9: standard input is read once, after the prompt was written and before
\* any slot of arr is written; no later step changes b, and the fill loop
\* and the if statement have used one and the same value of b.
C9_InputReadOnce ==
    /\ [](/\ nreads <= 1
          /\ nreads = 1 <=> pc # "prompt" /\ pc # "read"
          /\ nreads = 1 => (Len(out) >= 1 /\ out[1] = Str("Enter a number: "))
          /\ nreads = 0 => \A k \in 0 .. 2 : writes[k] = 0
          /\ bseen \subseteq {b}
          /\ BranchDone => bseen = {b})
    /\ [][(b' # b \/ nreads' # nreads) => pc = "read"]_vars

C9_Witness ==
    pc = "done" /\ nreads = 1 /\ bseen = {b} /\ b = 12

\* C10: when the fill loop has finished, no i + b and no square(i + b) has
\* left the range of int exactly when -46340 <= b <= 46338.
C10_OverflowRange ==
    FillDone => (~ovf <=> (-46340 <= b /\ b <= 46338))

C10_Witness ==
    pc = "done" /\ b = 46338 /\ ~ovf /\ arr[2] = 2147395600

====
